---- MODULE Spec2Model ----
(***************************************************************************)
(* NR5103 InfluxDB collector: the radio-context normalisation of           *)
(* collector/collector.py, the poll cycle Collector.collect and the        *)
(* status fetch NR5103.get_status of nr5103/nr5103.py.                     *)
(*                                                                         *)
(* Python values are records [k, n, s]: k is the type, n the number, s the *)
(* text (a sequence of one-character strings).  Floats are fixed point in  *)
(* tenths: the float -139.9 is n = -1399.  Every threshold of the code is  *)
(* a whole number, so tenths separate all boundary cases.                  *)
(***************************************************************************)
EXTENDS Integers, Sequences, FiniteSets, TLC

VARIABLES
    \* Collector.collect: one poll cycle
    pc,          \* position inside collect()
    status,      \* the status document returned by _get_status (or None)
    now,         \* the timestamp taken by collect()
    points,      \* the list returned by _extract_radio_points
    writes,      \* records handed to write_api.write in this cycle, in order
    exc,         \* exception that left _extract_radio_points ("none" if none)
    cycle,       \* poll cycles started
    \* parse_band_rfcn_pairs / choose_lte_anchor applied to drawn inputs
    fpc, bands_csv, rfcns_csv, pairs, anchor,
    \* NR5103.get_status
    gs_pc, retries, attempts, requests, logins, cookies, gs_result

vars == <<pc, status, now, points, writes, exc, cycle,
          fpc, bands_csv, rfcns_csv, pairs, anchor,
          gs_pc, retries, attempts, requests, logins, cookies, gs_result>>

collectVars == <<pc, status, now, points, writes, exc, cycle>>
pureVars == <<fpc, bands_csv, rfcns_csv, pairs, anchor>>
statusVars == <<gs_pc, retries, attempts, requests, logins, cookies, gs_result>>

----------------------------------------------------------------------------
\* Python values

Val(k, n, s) == [k |-> k, n |-> n, s |-> s]
None == Val("none", 0, <<>>)
PyInt(i) == Val("int", i, <<>>)
PyFloat(t) == Val("float", t, <<>>)
PyStr(s) == Val("str", 0, s)
PyBool(b) == Val("bool", IF b THEN 1 ELSE 0, <<>>)
PyInf == Val("inf", 0, <<>>)

Tenths(i) == i * 10

\* outcome of a call: the exception that left it, or its value
Ok(v) == [exc |-> "none", val |-> v]
Raise(e) == [exc |-> e, val |-> None]

\* bool(v), `if v`, `v or w`
Truthy(v) ==
    CASE v.k = "none" -> FALSE
      [] v.k = "str" -> v.s # <<>>
      [] v.k = "inf" -> TRUE
      [] OTHER -> v.n # 0

----------------------------------------------------------------------------
\* Text

Digits == {"0", "1", "2", "3", "4", "5", "6", "7", "8", "9"}

DigitVal(c) ==
    CASE c = "0" -> 0 [] c = "1" -> 1 [] c = "2" -> 2 [] c = "3" -> 3
      [] c = "4" -> 4 [] c = "5" -> 5 [] c = "6" -> 6 [] c = "7" -> 7
      [] c = "8" -> 8 [] c = "9" -> 9

DigitChar(d) ==
    CASE d = 0 -> "0" [] d = 1 -> "1" [] d = 2 -> "2" [] d = 3 -> "3"
      [] d = 4 -> "4" [] d = 5 -> "5" [] d = 6 -> "6" [] d = 7 -> "7"
      [] d = 8 -> "8" [] d = 9 -> "9"

RECURSIVE LStrip(_)
LStrip(s) == IF s # <<>> /\ Head(s) = " " THEN LStrip(Tail(s)) ELSE s

RECURSIVE RStrip(_)
RStrip(s) ==
    IF s # <<>> /\ s[Len(s)] = " " THEN RStrip(SubSeq(s, 1, Len(s) - 1)) ELSE s

\* str.strip()
Strip(s) == RStrip(LStrip(s))

\* str.split(","): every token, the empty ones included
RECURSIVE SplitComma(_)
SplitComma(s) ==
    IF \A i \in 1..Len(s) : s[i] # ","
    THEN <<s>>
    ELSE LET i == CHOOSE i \in 1..Len(s) :
                    s[i] = "," /\ \A j \in 1..(i - 1) : s[j] # ","
         IN  <<SubSeq(s, 1, i - 1)>> \o SplitComma(SubSeq(s, i + 1, Len(s)))

\* ",".join(xs)
RECURSIVE JoinComma(_)
JoinComma(xs) ==
    IF xs = <<>> THEN <<>>
    ELSE IF Len(xs) = 1 THEN xs[1]
    ELSE xs[1] \o <<",">> \o JoinComma(Tail(xs))

RECURSIVE DigitsToNat(_)
DigitsToNat(s) ==
    IF s = <<>> THEN 0
    ELSE DigitsToNat(SubSeq(s, 1, Len(s) - 1)) * 10 + DigitVal(s[Len(s)])

IsDigits(s) == s # <<>> /\ \A i \in 1..Len(s) : s[i] \in Digits

Unsigned(t) == IF t # <<>> /\ t[1] \in {"-", "+"} THEN Tail(t) ELSE t
Sign(t) == IF t # <<>> /\ t[1] = "-" THEN -1 ELSE 1

RECURSIVE NatToStr(_)
NatToStr(n) ==
    IF n < 10 THEN <<DigitChar(n)>>
    ELSE NatToStr(n \div 10) \o <<DigitChar(n % 10)>>

Abs(i) == IF i < 0 THEN -i ELSE i

\* str(i) of an int
IntToStr(i) == IF i < 0 THEN <<"-">> \o NatToStr(-i) ELSE NatToStr(i)

\* str(f) of a float held in tenths: -950 is "-95.0"
FloatToStr(t) ==
    (IF t < 0 THEN <<"-">> ELSE <<>>)
        \o NatToStr(Abs(t) \div 10) \o <<".">> \o <<DigitChar(Abs(t) % 10)>>

\* str(v)
StrOf(v) ==
    CASE v.k = "str" -> v.s
      [] v.k = "int" -> IntToStr(v.n)
      [] v.k = "float" -> FloatToStr(v.n)
      [] v.k = "bool" -> IF v.n = 1 THEN <<"T", "r", "u", "e">>
                         ELSE <<"F", "a", "l", "s", "e">>
      [] v.k = "inf" -> <<"i", "n", "f">>
      [] OTHER -> <<"N", "o", "n", "e">>

\* the text is an integer literal: optional sign, digits, blanks around
IsIntText(s) == IsDigits(Unsigned(Strip(s)))
IntOfText(s) == Sign(Strip(s)) * DigitsToNat(Unsigned(Strip(s)))

\* the text is a decimal literal with at most one fractional digit
DotAt(t) == {i \in 1..Len(t) : t[i] = "."}
IsFloatText(s) ==
    LET t == Unsigned(Strip(s))
    IN  \/ IsDigits(t)
        \/ /\ Cardinality(DotAt(t)) = 1
           /\ LET d == CHOOSE i \in DotAt(t) : TRUE
                  ip == SubSeq(t, 1, d - 1)
                  fp == SubSeq(t, d + 1, Len(t))
              IN  /\ ip = <<>> \/ IsDigits(ip)
                  /\ fp = <<>> \/ (IsDigits(fp) /\ Len(fp) = 1)
                  /\ ip # <<>> \/ fp # <<>>
FloatOfText(s) ==
    LET t == Unsigned(Strip(s))
        sg == Sign(Strip(s))
    IN  IF IsDigits(t) THEN sg * Tenths(DigitsToNat(t))
        ELSE LET d == CHOOSE i \in DotAt(t) : TRUE
                 ip == SubSeq(t, 1, d - 1)
                 fp == SubSeq(t, d + 1, Len(t))
             IN  sg * (Tenths(DigitsToNat(ip)) + DigitsToNat(fp))

----------------------------------------------------------------------------
\* Helpers of collector.py

\* split_csv: [] for a falsy value, else the stripped non-empty tokens.
\* A truthy value that is no str has no split(): AttributeError.
split_csv(value) ==
    IF ~Truthy(value) THEN Ok(<<>>)
    ELSE IF value.k # "str" THEN Raise("AttributeError")
    ELSE LET toks == SplitComma(value.s)
         IN  Ok(SelectSeq([i \in 1..Len(toks) |-> Strip(toks[i])],
                          LAMBDA x : x # <<>>))

\* float(value): the built-in, with the exception it raises
FloatCall(value) ==
    CASE value.k = "none" -> Raise("TypeError")
      [] value.k = "int" -> Ok(PyFloat(Tenths(value.n)))
      [] value.k = "bool" -> Ok(PyFloat(Tenths(value.n)))
      [] value.k = "float" -> Ok(value)
      [] value.k = "inf" -> Ok(value)
      [] value.k = "str" ->
            IF IsFloatText(value.s) THEN Ok(PyFloat(FloatOfText(value.s)))
            ELSE Raise("ValueError")

\* int(value): the built-in; a float is truncated towards zero
IntCall(value) ==
    CASE value.k = "none" -> Raise("TypeError")
      [] value.k = "int" -> Ok(value)
      [] value.k = "bool" -> Ok(PyInt(value.n))
      [] value.k = "float" ->
            Ok(PyInt(IF value.n < 0 THEN -((-value.n) \div 10)
                     ELSE value.n \div 10))
      [] value.k = "inf" -> Raise("OverflowError")
      [] value.k = "str" ->
            IF IsIntText(value.s) THEN Ok(PyInt(IntOfText(value.s)))
            ELSE Raise("ValueError")

\* a handler that names TypeError alone
CaughtTypeError == {"TypeError"}

\* except (TypeError, ValueError)
Caught == {"TypeError", "ValueError"}

Guarded(r) == IF r.exc \in Caught THEN Ok(None) ELSE r

safe_float(value) == Guarded(FloatCall(value))

safe_int(value) == Guarded(IntCall(value))

\* the comparison written v >= 0
valid_pci_nonneg(value) ==
    LET v == safe_int(value)
    IN  IF v.exc # "none" THEN v
        ELSE Ok(v.val.k # "none" /\ v.val.n >= 0)

\* valid_pci: the PCI coerces to an int > 0
valid_pci(value) ==
    LET v == safe_int(value)
    IN  IF v.exc # "none" THEN v
        ELSE Ok(v.val.k # "none" /\ v.val.n > 0)

\* a float compared with a bound: inf is above every bound
Below(v, bound) == v.k = "float" /\ v.n < Tenths(bound)
Above(v, bound) == v.k = "inf" \/ (v.k = "float" /\ v.n > Tenths(bound))

\* the bounds written inclusive
valid_rsrp_inclusive(v) ==
    v.k = "float" /\ v.n >= Tenths(-140) /\ v.n <= Tenths(-40)

valid_rsrp(v) == v.k # "none" /\ Above(v, -140) /\ Below(v, -40)

valid_rsrq(v) == v.k # "none" /\ Above(v, -30) /\ Below(v, 0)

valid_sinr(v) == v.k # "none" /\ Above(v, -20) /\ Below(v, 50)

Pair(b, r) == [band |-> b, rfcn |-> r]

\* the channel index off by one
parse_band_rfcn_pairs_shift(b_csv, r_csv) ==
    LET bands == split_csv(b_csv)
        rfcns == split_csv(r_csv)
    IN  IF bands.exc # "none" THEN bands
        ELSE IF rfcns.exc # "none" THEN rfcns
        ELSE Ok([i \in 1..Len(bands.val) |->
                   Pair(bands.val[i],
                        IF i + 1 <= Len(rfcns.val) THEN rfcns.val[i + 1]
                        ELSE <<>>)])

\* parse_band_rfcn_pairs
parse_band_rfcn_pairs(b_csv, r_csv) ==
    LET bands == split_csv(b_csv)
        rfcns == split_csv(r_csv)
    IN  IF bands.exc # "none" THEN bands
        ELSE IF rfcns.exc # "none" THEN rfcns
        ELSE Ok([i \in 1..Len(bands.val) |->
                   Pair(bands.val[i],
                        IF i <= Len(rfcns.val) THEN rfcns.val[i] ELSE <<>>)])

B20 == <<"B", "2", "0">>
B29 == <<"B", "2", "9">>
B32 == <<"B", "3", "2">>
n1 == <<"n", "1">>

LTE_SDL_ONLY == {B32, B29}

\* str.startswith("B")
StartsWithB(s) == s # <<>> /\ s[1] = "B"

NoPair == Pair(<<"?">>, <<"?">>)

\* the first LTE pair, supplemental or not
choose_lte_anchor_first(ps) ==
    LET lte == SelectSeq(ps, LAMBDA p : StartsWithB(p.band))
    IN  IF lte = <<>> THEN [found |-> FALSE, pair |-> NoPair]
        ELSE [found |-> TRUE, pair |-> lte[1]]

\* choose_lte_anchor: [found, pair]; found = FALSE is None
choose_lte_anchor(ps) ==
    LET lte == SelectSeq(ps, LAMBDA p : StartsWithB(p.band))
        non_sdl == SelectSeq(lte, LAMBDA p : p.band \notin LTE_SDL_ONLY)
    IN  IF lte = <<>> THEN [found |-> FALSE, pair |-> NoPair]
        ELSE [found |-> TRUE,
              pair |-> IF non_sdl # <<>> THEN non_sdl[1] ELSE lte[1]]

----------------------------------------------------------------------------
\* Observations (influxdb_client Point: measurement, tags, fields, time)

Txt_LTE == <<"L", "T", "E">>
Txt_NR == <<"N", "R">>
Txt_anchor == <<"a", "n", "c", "h", "o", "r">>
Txt_secondary == <<"s", "e", "c", "o", "n", "d", "a", "r", "y">>
Txt_unknown == <<"u", "n", "k", "n", "o", "w", "n">>

\* the zero left in place
clean_sinr_keep(sinr) == sinr

\* _clean_sinr: a SINR equal to 0 becomes None
clean_sinr(sinr) ==
    IF sinr.k \in {"float", "int", "bool"} /\ sinr.n = 0 THEN None ELSE sinr

\* _radio_point
radio_point(rat, role, pci, cell_id, band, arfcn, rsrp, rsrq, sinr, time) ==
    LET tagKeys == {"rat", "role", "pci", "cell_id"}
                     \cup (IF Truthy(band) THEN {"band"} ELSE {})
                     \cup (IF Truthy(arfcn) THEN {"arfcn"} ELSE {})
        fieldKeys == (IF rsrp.k # "none" THEN {"rsrp"} ELSE {})
                       \cup (IF rsrq.k # "none" THEN {"rsrq"} ELSE {})
                       \cup (IF sinr.k # "none" THEN {"sinr"} ELSE {})
    IN  [measurement |-> "cellular_radio_raw",
         tags |-> [k \in tagKeys |->
                     CASE k = "rat" -> rat
                       [] k = "role" -> role
                       [] k = "pci" ->
                            IF pci.k # "none" THEN StrOf(pci) ELSE Txt_unknown
                       [] k = "cell_id" ->
                            IF cell_id.k # "none" THEN StrOf(cell_id)
                            ELSE Txt_unknown
                       [] k = "band" -> StrOf(band)
                       [] k = "arfcn" -> StrOf(arfcn)],
         fields |-> [k \in fieldKeys |->
                       CASE k = "rsrp" -> rsrp
                         [] k = "rsrq" -> rsrq
                         [] k = "sinr" -> sinr],
         time |-> time]

\* Point.field(key, value) on a built point
WithField(p, key, value) ==
    [p EXCEPT !.fields =
        [k \in (DOMAIN p.fields) \cup {key} |->
            IF k = key THEN value ELSE p.fields[k]]]

FieldNames == {"INTF_Current_Band", "INTF_RFCN", "INTF_PhyCell_ID",
               "INTF_Cell_ID", "INTF_RSRP", "INTF_RSRQ", "INTF_SINR",
               "NSA_Enable", "NSA_PhyCellID", "NSA_Cell_ID", "NSA_Band",
               "NSA_RFCN", "NSA_RSRP", "NSA_RSRQ", "NSA_SINR"}

\* a cellular section with no key: cell.get(key) is None for every key
EmptyCell == [k \in FieldNames |-> None]

\* status.get("cellular", {})
CellOf(st) == IF st.has_cellular THEN st.cellular ELSE EmptyCell

\* the first exception among the outcomes of calls made in this order
RECURSIVE FirstExc(_)
FirstExc(rs) ==
    IF rs = <<>> THEN "none"
    ELSE IF Head(rs).exc # "none" THEN Head(rs).exc
    ELSE FirstExc(Tail(rs))

\* the LTE / anchor block of _extract_radio_points: the points it appends
AnchorPoints(cell, ps, time) ==
    LET lte_anchor == choose_lte_anchor(ps)
        raw_bands ==
            IF ps # <<>>
            THEN PyStr(JoinComma([i \in 1..Len(ps) |-> ps[i].band]))
            ELSE None
        raw_rfcns ==
            IF ps # <<>>
            THEN PyStr(JoinComma(SelectSeq([i \in 1..Len(ps) |-> ps[i].rfcn],
                                           LAMBDA x : x # <<>>)))
            ELSE None
        lte_pci == cell["INTF_PhyCell_ID"]
        gate == valid_pci(lte_pci)
        rsrp == safe_float(cell["INTF_RSRP"])
        rsrq == safe_float(cell["INTF_RSRQ"])
        sinr == safe_float(cell["INTF_SINR"])
    IN  IF gate.exc # "none" THEN Raise(gate.exc)
        ELSE IF ~gate.val THEN Ok(<<>>)
        ELSE IF FirstExc(<<rsrp, rsrq, sinr>>) # "none"
        THEN Raise(FirstExc(<<rsrp, rsrq, sinr>>))
        ELSE LET p0 == radio_point(
                     Txt_LTE, Txt_anchor, lte_pci, cell["INTF_Cell_ID"],
                     IF lte_anchor.found THEN PyStr(lte_anchor.pair.band)
                     ELSE None,
                     IF lte_anchor.found /\ lte_anchor.pair.rfcn # <<>>
                     THEN PyStr(lte_anchor.pair.rfcn) ELSE None,
                     rsrp.val, rsrq.val, clean_sinr(sinr.val), time)
                 p1 == IF raw_bands.k # "none"
                       THEN WithField(p0, "intf_bands", raw_bands) ELSE p0
                 p2 == IF raw_rfcns.k # "none"
                       THEN WithField(p1, "intf_rfcns", raw_rfcns) ELSE p1
             IN  Ok(<<p2>>)

\* the NR (NSA secondary) block of _extract_radio_points
SecondaryPoints(cell, time) ==
    IF ~Truthy(cell["NSA_Enable"]) THEN Ok(<<>>)
    ELSE
    LET nr_pci == cell["NSA_PhyCellID"]
        nr_band == cell["NSA_Band"]
        nr_arfcn == cell["NSA_RFCN"]
        nr_rsrp == safe_float(cell["NSA_RSRP"])
        gate == valid_pci(nr_pci)
        rsrq == safe_float(cell["NSA_RSRQ"])
        sinr == safe_float(cell["NSA_SINR"])
    IN  IF nr_rsrp.exc # "none" THEN Raise(nr_rsrp.exc)
        ELSE IF gate.exc # "none" THEN Raise(gate.exc)
        ELSE IF ~(gate.val /\ Truthy(nr_band) /\ Truthy(nr_arfcn)
                    /\ valid_rsrp(nr_rsrp.val))
        THEN Ok(<<>>)
        ELSE IF FirstExc(<<rsrq, sinr>>) # "none"
        THEN Raise(FirstExc(<<rsrq, sinr>>))
        ELSE Ok(<<radio_point(
                     Txt_NR, Txt_secondary, nr_pci,
                     IF Truthy(cell["NSA_Cell_ID"]) THEN cell["NSA_Cell_ID"]
                     ELSE cell["INTF_Cell_ID"],
                     nr_band, nr_arfcn, nr_rsrp.val, rsrq.val,
                     clean_sinr(sinr.val), time)>>)

\* the secondary block placed first
AssembleReversed(a, s) == s \o a

\* points.append(...) of the anchor block, then of the secondary block
Assemble(a, s) == a \o s

\* _extract_radio_points: the list of points, or the exception that left it
extract_radio_points(st, time) ==
    LET cell == CellOf(st)
        pr == parse_band_rfcn_pairs(cell["INTF_Current_Band"],
                                    cell["INTF_RFCN"])
    IN  IF pr.exc # "none" THEN Raise(pr.exc)
        ELSE LET a == AnchorPoints(cell, pr.val, time)
             IN  IF a.exc # "none" THEN Raise(a.exc)
                 ELSE LET s == SecondaryPoints(cell, time)
                      IN  IF s.exc # "none" THEN Raise(s.exc)
                          ELSE Ok(Assemble(a.val, s.val))

----------------------------------------------------------------------------
\* Status documents the modem can hand to one poll cycle

Csv(toks) == PyStr(JoinComma(toks))
Txt_abc == <<"a", "b", "c">>
Txt_n78 == <<"n", "7", "8">>

LteChoices ==
    [INTF_Current_Band : {None, Csv(<<B20, B32>>), Csv(<<B32, <<" ">> \o n1>>)},
     INTF_RFCN : {None, Csv(<<NatToStr(1300), NatToStr(9410)>>),
                  Csv(<<<<>>, NatToStr(9410)>>)},
     INTF_PhyCell_ID : {None, PyInt(123), PyInt(0), PyInt(-5), PyStr(Txt_abc),
                        PyStr(NatToStr(123))},
     INTF_Cell_ID : {None, PyInt(777)},
     INTF_RSRP : {None, PyFloat(-950), PyFloat(-1400), PyFloat(-1399),
                  PyFloat(-400), PyFloat(-401), PyStr(Txt_abc)},
     INTF_RSRQ : {None, PyFloat(-105), PyFloat(-300)},
     INTF_SINR : {None, PyInt(0), PyStr(FloatToStr(0)), PyFloat(125),
                  PyFloat(500)}]

NrChoices ==
    [NSA_Enable : {None, PyBool(TRUE), PyBool(FALSE)},
     NSA_PhyCellID : {None, PyInt(45), PyInt(0), PyStr(Txt_abc)},
     NSA_Cell_ID : {None, PyInt(888)},
     NSA_Band : {None, PyStr(<<>>), PyStr(Txt_n78)},
     NSA_RFCN : {None, PyStr(<<>>), PyStr(NatToStr(636666))},
     NSA_RSRP : {None, PyFloat(-1015), PyFloat(-1400), PyFloat(-400),
                 PyStr(Txt_abc), PyStr(FloatToStr(-1015))},
     NSA_RSRQ : {None, PyFloat(-110), PyFloat(0)},
     NSA_SINR : {None, PyInt(0), PyFloat(75), PyStr(NatToStr(0))}]

LteAbsent ==
    [INTF_Current_Band |-> None, INTF_RFCN |-> None, INTF_PhyCell_ID |-> None,
     INTF_Cell_ID |-> None, INTF_RSRP |-> None, INTF_RSRQ |-> None,
     INTF_SINR |-> None]

NrAbsent ==
    [NSA_Enable |-> None, NSA_PhyCellID |-> None, NSA_Cell_ID |-> None,
     NSA_Band |-> None, NSA_RFCN |-> None, NSA_RSRP |-> None,
     NSA_RSRQ |-> None, NSA_SINR |-> None]

\* a plain attached LTE cell / an active NR secondary
LteTypical ==
    [LteAbsent EXCEPT !.INTF_Current_Band = Csv(<<B20, n1>>),
                      !.INTF_RFCN = Csv(<<NatToStr(1300), NatToStr(636666)>>),
                      !.INTF_PhyCell_ID = PyInt(123),
                      !.INTF_Cell_ID = PyInt(777),
                      !.INTF_RSRP = PyFloat(-950)]

NrTypical ==
    [NrAbsent EXCEPT !.NSA_Enable = PyBool(TRUE),
                     !.NSA_PhyCellID = PyInt(45),
                     !.NSA_Band = PyStr(Txt_n78),
                     !.NSA_RFCN = PyStr(NatToStr(636666)),
                     !.NSA_RSRP = PyFloat(-1015)]

\* bands "B20,B32", channels "1300,9410", LTE PCI 123, LTE RSRP -95.0,
\* secondary disabled, nothing else
Scenario ==
    [EmptyCell EXCEPT !["INTF_Current_Band"] = Csv(<<B20, B32>>),
                         !["INTF_RFCN"] =
                             Csv(<<NatToStr(1300), NatToStr(9410)>>),
                         !["INTF_PhyCell_ID"] = PyInt(123),
                         !["INTF_RSRP"] = PyFloat(-950),
                         !["NSA_Enable"] = PyBool(FALSE)]

\* values outside the documented schema: a band list that is a number, a
\* PCI that is the float infinity (json accepts Infinity)
Unschematic ==
    {[Scenario EXCEPT !["INTF_Current_Band"] = PyInt(20)],
     [Scenario EXCEPT !["INTF_RFCN"] = PyInt(1300)],
     [Scenario EXCEPT !["INTF_PhyCell_ID"] = PyInf],
     [Scenario EXCEPT !["NSA_Enable"] = PyBool(TRUE),
                      !["NSA_PhyCellID"] = PyInf]}

Doc(has, cell) == [ok |-> TRUE, has_cellular |-> has, cellular |-> cell]

\* None: the fetch failed
NoStatus == [ok |-> FALSE]

\* a document with the LTE keys of l and the NSA keys of n
DocOf(l, n) == Doc(TRUE, l @@ n)

\* the band and channel lists carry text or are absent, no PCI is infinite
Schematic(st) ==
    /\ CellOf(st)["INTF_Current_Band"].k \in {"none", "str"}
    /\ CellOf(st)["INTF_RFCN"].k \in {"none", "str"}
    /\ CellOf(st)["INTF_PhyCell_ID"].k # "inf"
    /\ CellOf(st)["NSA_PhyCellID"].k # "inf"

----------------------------------------------------------------------------
\* Collector.collect

MaxCycles == 2

Txt_host == <<"h", "o", "s", "t">>
Latencies == {None, PyFloat(123)}

\* _extract_ping_point: None when ping gave no latency
extract_ping_point(latency, time) ==
    IF latency.k = "none" THEN <<>>
    ELSE <<[measurement |-> "network_ping",
            tags |-> [k \in {"target"} |-> Txt_host],
            fields |-> [k \in {"latency_ms"} |-> latency],
            time |-> time]>>

InitCollect ==
    /\ pc = "idle"
    /\ status = NoStatus
    /\ now = 0
    /\ points = <<>>
    /\ writes = <<>>
    /\ exc = "none"
    /\ cycle = 0

\* status = self._get_status(); now = datetime.utcnow(); if not status: return
Fetched(st) ==
    /\ status' = st
    /\ pc' = IF st.ok THEN "extract" ELSE "idle"

CollectFetch ==
    /\ pc = "idle"
    /\ cycle < MaxCycles
    /\ cycle' = cycle + 1
    /\ now' = now + 1
    /\ \/ \E l \in LteChoices, n \in {NrAbsent, NrTypical} : Fetched(DocOf(l, n))
       \/ \E l \in {LteAbsent, LteTypical}, n \in NrChoices : Fetched(DocOf(l, n))
       \/ \E c \in {Scenario} \cup Unschematic : Fetched(Doc(TRUE, c))
       \/ Fetched(Doc(FALSE, EmptyCell))
       \/ Fetched(NoStatus)
    /\ points' = <<>>
    /\ writes' = <<>>
    /\ UNCHANGED exc

\* self._extract_radio_points(status, now)
CollectExtract ==
    /\ pc = "extract"
    /\ LET r == extract_radio_points(status, now)
       IN  IF r.exc # "none"
           THEN /\ exc' = r.exc
                /\ pc' = "raised"
                /\ UNCHANGED points
           ELSE /\ points' = r.val
                /\ pc' = "write"
                /\ UNCHANGED exc
    /\ UNCHANGED <<status, now, writes, cycle>>

\* for p in points: self.write_api.write(record=p)
CollectWrite ==
    /\ pc = "write"
    /\ Len(writes) < Len(points)
    /\ writes' = Append(writes, points[Len(writes) + 1])
    /\ UNCHANGED <<pc, status, now, points, exc, cycle>>

\* ping_point = self._extract_ping_point(now); written when there is one
CollectPing ==
    /\ pc = "write"
    /\ Len(writes) = Len(points)
    /\ \E latency \in Latencies :
          writes' = writes \o extract_ping_point(latency, now)
    /\ pc' = "done"
    /\ UNCHANGED <<status, now, points, exc, cycle>>

\* collect() returns; its locals are gone
CollectReturn ==
    /\ pc = "done"
    /\ pc' = "idle"
    /\ status' = NoStatus
    /\ points' = <<>>
    /\ writes' = <<>>
    /\ UNCHANGED <<now, exc, cycle>>

InitPureIdle ==
    /\ fpc = "off"
    /\ bands_csv = None
    /\ rfcns_csv = None
    /\ pairs = <<>>
    /\ anchor = [found |-> FALSE, pair |-> NoPair]

InitStatusIdle ==
    /\ gs_pc = "off"
    /\ retries = 0
    /\ attempts = 0
    /\ requests = 0
    /\ logins = 0
    /\ cookies = "stored"
    /\ gs_result = "none"

Init == InitCollect /\ InitPureIdle /\ InitStatusIdle

Next ==
    \/ CollectFetch /\ UNCHANGED <<pureVars, statusVars>>
    \/ CollectExtract /\ UNCHANGED <<pureVars, statusVars>>
    \/ CollectWrite /\ UNCHANGED <<pureVars, statusVars>>
    \/ CollectPing /\ UNCHANGED <<pureVars, statusVars>>
    \/ CollectReturn /\ UNCHANGED <<pureVars, statusVars>>

Spec == Init /\ [][Next]_vars

----------------------------------------------------------------------------
\* parse_band_rfcn_pairs and choose_lte_anchor on drawn band and channel lists

MaxBands == 3
MaxChans == 3

BandTokens == {B20, B29, B32, <<" ">> \o n1 \o <<" ">>, <<>>}
ChanTokens == {NatToStr(1300), <<" ">> \o NatToStr(9410), <<>>}

TokLists(S, n) == UNION {[1..k -> S] : k \in 0..n}

InitCollectIdle ==
    /\ pc = "off"
    /\ status = NoStatus
    /\ now = 0
    /\ points = <<>>
    /\ writes = <<>>
    /\ exc = "none"
    /\ cycle = 0

InitPure ==
    /\ fpc = "start"
    /\ bands_csv \in {None} \cup {Csv(ts) : ts \in TokLists(BandTokens, MaxBands)}
    /\ rfcns_csv \in {None} \cup {Csv(ts) : ts \in TokLists(ChanTokens, MaxChans)}
    /\ pairs = <<>>
    /\ anchor = [found |-> FALSE, pair |-> NoPair]
    /\ InitCollectIdle
    /\ InitStatusIdle

\* pairs = parse_band_rfcn_pairs(bands_csv, rfcns_csv)
PureParse ==
    /\ fpc = "start"
    /\ pairs' = parse_band_rfcn_pairs(bands_csv, rfcns_csv).val
    /\ fpc' = "parsed"
    /\ UNCHANGED <<bands_csv, rfcns_csv, anchor>>

\* lte_anchor = choose_lte_anchor(pairs)
PureChoose ==
    /\ fpc = "parsed"
    /\ anchor' = choose_lte_anchor(pairs)
    /\ fpc' = "chosen"
    /\ UNCHANGED <<bands_csv, rfcns_csv, pairs>>

NextPure ==
    \/ PureParse /\ UNCHANGED <<collectVars, statusVars>>
    \/ PureChoose /\ UNCHANGED <<collectVars, statusVars>>

SpecPure == InitPure /\ [][NextPure]_vars

----------------------------------------------------------------------------
\* NR5103.get_status(retries) against a modem that answers as it likes

MaxRetries == 3
MaxCount == 3

\* get_json_object: 200 with an object, HTTP 401, another HTTP error
\* (raise_for_status), or a 200 whose payload is refused (NR5103Exception)
Responses == {"ok", "401", "http_error", "bad_payload"}

\* login: any status other than 200 logs "Unauthorized" and returns None
LoginResponses == {"ok", "401", "http_error"}

Bump(c) == IF c < MaxCount THEN c + 1 ELSE c

InitStatus ==
    /\ gs_pc = "idle"
    /\ retries = 0
    /\ attempts = 0
    /\ requests = 0
    /\ logins = 0
    /\ cookies = "stored"
    /\ gs_result = "none"
    /\ InitCollectIdle
    /\ InitPureIdle

\* attempts = retries
GsCall ==
    /\ gs_pc = "idle"
    /\ \E n \in 1..MaxRetries :
          /\ retries' = n
          /\ attempts' = n
    /\ gs_pc' = "test"
    /\ requests' = 0
    /\ logins' = 0
    /\ gs_result' = "none"
    /\ UNCHANGED cookies

\* while attempts > 0: ... ; return None
GsTest ==
    /\ gs_pc = "test"
    /\ IF attempts > 0
       THEN gs_pc' = "cellwan" /\ UNCHANGED gs_result
       ELSE gs_pc' = "returned" /\ gs_result' = "None"
    /\ UNCHANGED <<retries, attempts, requests, logins, cookies>>

\* except requests.exceptions.HTTPError: 401 logs in again and leaves
\* attempts alone, any other status costs one attempt
OnHttpError(r) ==
    IF r = "401"
    THEN gs_pc' = "login" /\ UNCHANGED attempts
    ELSE gs_pc' = "test" /\ attempts' = attempts - 1

\* the answer r to a status request; `nextpc` is where success leads
Answered(r, nextpc, res) ==
    /\ requests' = Bump(requests)
    /\ CASE r = "ok" ->
              gs_pc' = nextpc /\ gs_result' = res /\ UNCHANGED attempts
         [] r = "bad_payload" ->
              gs_pc' = "raised" /\ gs_result' = "NR5103Exception"
                /\ UNCHANGED attempts
         [] OTHER -> OnHttpError(r) /\ UNCHANGED gs_result
    /\ UNCHANGED <<retries, logins, cookies>>

\* cellular = self.get_json_object("cellwan_status")
GsCellwan ==
    /\ gs_pc = "cellwan"
    /\ \E r \in Responses : Answered(r, "traffic", gs_result)

\* traffic = parse_traffic_object(self.get_json_object("Traffic_Status"))
\* return {"cellular": cellular, "traffic": traffic}
GsTraffic ==
    /\ gs_pc = "traffic"
    /\ \E r \in Responses : Answered(r, "returned", "doc")

\* self.login(): a 200 replaces the cookies; its result is dropped and the
\* loop goes round
GsLogin ==
    /\ gs_pc = "login"
    /\ \E r \in LoginResponses :
          cookies' = IF r = "ok" THEN "login" ELSE cookies
    /\ logins' = Bump(logins)
    /\ gs_pc' = "test"
    /\ UNCHANGED <<retries, attempts, requests, gs_result>>

\* the caller takes the result (Collector._get_status) and may call again
GsEnd ==
    /\ gs_pc \in {"returned", "raised"}
    /\ gs_pc' = "idle"
    /\ UNCHANGED <<retries, attempts, requests, logins, cookies, gs_result>>

NextStatus ==
    \/ GsCall /\ UNCHANGED <<collectVars, pureVars>>
    \/ GsTest /\ UNCHANGED <<collectVars, pureVars>>
    \/ GsCellwan /\ UNCHANGED <<collectVars, pureVars>>
    \/ GsTraffic /\ UNCHANGED <<collectVars, pureVars>>
    \/ GsLogin /\ UNCHANGED <<collectVars, pureVars>>
    \/ GsEnd /\ UNCHANGED <<collectVars, pureVars>>

\* the thread running get_status keeps running and every request is answered
SpecStatus == InitStatus /\ [][NextStatus]_vars /\ WF_vars(NextStatus)

----------------------------------------------------------------------------
\* Vocabulary of the properties

Extracted == pc \in {"write", "done"}
Snapshot == CellOf(status)

IsAnchor(p) == p.tags["rat"] = Txt_LTE /\ p.tags["role"] = Txt_anchor
IsSecondary(p) == p.tags["rat"] = Txt_NR /\ p.tags["role"] = Txt_secondary
Anchors == {i \in 1..Len(points) : IsAnchor(points[i])}
Secondaries == {i \in 1..Len(points) : IsSecondary(points[i])}

\* present, integer-coercible (int() accepts it) and strictly greater than 0
PciPresentValid(v) ==
    /\ v.k # "none"
    /\ IntCall(v).exc = "none"
    /\ IntCall(v).val.n > 0

\* a number, or numeric text, strictly between lo and hi
NumberBetween(v, lo, hi) ==
    /\ FloatCall(v).exc = "none"
    /\ FloatCall(v).val.k = "float"
    /\ Tenths(lo) < FloatCall(v).val.n
    /\ FloatCall(v).val.n < Tenths(hi)

\* a number, or numeric text, whose value is 0
NumberZero(v) ==
    /\ FloatCall(v).exc = "none"
    /\ FloatCall(v).val.k = "float"
    /\ FloatCall(v).val.n = 0

PresentText(v) == v.k = "str" /\ v.s # <<>>

\* the five conditions of the secondary gate, read off the snapshot
SecondaryGate(cell) ==
    /\ cell["NSA_Enable"] = PyBool(TRUE)
    /\ PciPresentValid(cell["NSA_PhyCellID"])
    /\ PresentText(cell["NSA_Band"])
    /\ PresentText(cell["NSA_RFCN"])
    /\ NumberBetween(cell["NSA_RSRP"], -140, -40)

----------------------------------------------------------------------------
\* Properties

\* C1: an LTE/anchor observation is emitted only if INTF_PhyCell_ID is
\* present, integer-coercible and > 0, and an NR/secondary observation only
\* if NSA_PhyCellID is; whatever the other fields hold.
C1_IdentityGate ==
    Extracted =>
        /\ Anchors # {} => PciPresentValid(Snapshot["INTF_PhyCell_ID"])
        /\ Secondaries # {} => PciPresentValid(Snapshot["NSA_PhyCellID"])

\* a PCI of 0 beside a plausible RSRP and a band list: no anchor
C1_Witness ==
    /\ Extracted
    /\ Snapshot["INTF_PhyCell_ID"] = PyInt(0)
    /\ NumberBetween(Snapshot["INTF_RSRP"], -140, -40)
    /\ Snapshot["INTF_Current_Band"] # None
    /\ Anchors = {}

\* C2: in every emitted observation rsrp is present only if strictly between
\* -140 and -40, rsrq only if strictly between -30 and 0, sinr only if
\* strictly between -20 and 50.
C2_FieldsPlausible ==
    Extracted =>
        \A i \in 1..Len(points) :
            LET f == points[i].fields
            IN  /\ "rsrp" \in DOMAIN f => NumberBetween(f["rsrp"], -140, -40)
                /\ "rsrq" \in DOMAIN f => NumberBetween(f["rsrq"], -30, 0)
                /\ "sinr" \in DOMAIN f => NumberBetween(f["sinr"], -20, 50)

\* the tokens of a comma-separated list as the device wrote them
RawTokens(v) == IF v.k = "str" THEN SplitComma(v.s) ELSE <<>>

\* C3: one pair per non-empty band token, in order, and the pair of the band
\* at index i carries the channel token at index i (trimmed), or the empty
\* string when the channel list is shorter: empty channel tokens shift nothing.
C3_IndexAligned ==
    fpc \in {"parsed", "chosen"} =>
        LET bt == RawTokens(bands_csv)
            ct == RawTokens(rfcns_csv)
            kept == SelectSeq([i \in 1..Len(bt) |-> i],
                              LAMBDA i : Strip(bt[i]) # <<>>)
        IN  /\ Len(pairs) = Len(kept)
            /\ \A j \in 1..Len(kept) :
                  pairs[j] = Pair(Strip(bt[kept[j]]),
                                  IF kept[j] <= Len(ct)
                                  THEN Strip(ct[kept[j]]) ELSE <<>>)

LteIdx == {i \in 1..Len(pairs) : StartsWithB(pairs[i].band)}
PrimaryIdx == {i \in LteIdx : pairs[i].band \notin {B32, B29}}
Least(S) == CHOOSE x \in S : \A y \in S : x <= y

\* C4: choose_lte_anchor returns none exactly when no band starts with "B";
\* else the first "B" pair outside {B32, B29}; when every "B" pair is in that
\* set, the first "B" pair.  So a band of that set is the anchor only when no
\* LTE band outside the set is listed, and no "n" band is ever returned.
C4_AnchorChoice ==
    fpc = "chosen" =>
        /\ ~anchor.found <=> LteIdx = {}
        /\ PrimaryIdx # {} =>
              anchor.found /\ anchor.pair = pairs[Least(PrimaryIdx)]
        /\ (LteIdx # {} /\ PrimaryIdx = {}) =>
              anchor.found /\ anchor.pair = pairs[Least(LteIdx)]
        /\ anchor.found => StartsWithB(anchor.pair.band)
        /\ (anchor.found /\ anchor.pair.band \in {B32, B29}) => PrimaryIdx = {}

\* B32 listed before B20: B20 is chosen
C4_Witness ==
    /\ fpc = "chosen"
    /\ Len(pairs) >= 2
    /\ pairs[1].band = B32
    /\ anchor.found
    /\ anchor.pair.band = B20

\* C5: an NR/secondary observation is emitted if and only if NSA_Enable is
\* true, the PCI is valid, band and channel are present and non-empty and the
\* RSRP is strictly between -140 and -40; it then carries band and arfcn tags.
C5_SecondaryGate ==
    Extracted =>
        /\ Secondaries # {} <=> SecondaryGate(Snapshot)
        /\ \A i \in Secondaries :
              {"band", "arfcn"} \subseteq DOMAIN points[i].tags

\* enabled, valid PCI, channel and RSRP, but no band: nothing is emitted
C5_Witness ==
    /\ Extracted
    /\ Snapshot["NSA_Enable"] = PyBool(TRUE)
    /\ PciPresentValid(Snapshot["NSA_PhyCellID"])
    /\ PresentText(Snapshot["NSA_RFCN"])
    /\ NumberBetween(Snapshot["NSA_RSRP"], -140, -40)
    /\ Snapshot["NSA_Band"] = None
    /\ Secondaries = {}

\* C6: a SINR whose value is 0, number or numeric text, is never the sinr
\* field of the observation of its context, and the observation is still
\* emitted when its gate passes.
C6_SinrZero ==
    Extracted =>
        /\ NumberZero(Snapshot["INTF_SINR"]) =>
              /\ \A i \in Anchors : "sinr" \notin DOMAIN points[i].fields
              /\ PciPresentValid(Snapshot["INTF_PhyCell_ID"]) => Anchors # {}
        /\ NumberZero(Snapshot["NSA_SINR"]) =>
              /\ \A i \in Secondaries : "sinr" \notin DOMAIN points[i].fields
              /\ SecondaryGate(Snapshot) => Secondaries # {}

\* the text "0.0" as LTE SINR, and an anchor emitted
C6_Witness ==
    /\ Extracted
    /\ Snapshot["INTF_SINR"] = PyStr(FloatToStr(0))
    /\ Anchors # {}

ScenarioFields ==
    [rsrp |-> PyFloat(-950),
     intf_bands |-> Csv(<<B20, B32>>),
     intf_rfcns |-> Csv(<<NatToStr(1300), NatToStr(9410)>>)]

InScenario == Extracted /\ status = Doc(TRUE, Scenario)

\* C7 as stated: the scenario yields one observation with tags exactly
\* {rat, role, pci, band, arfcn} and fields exactly {rsrp, intf_bands,
\* intf_rfcns}.
C7_ScenarioAsStated ==
    InScenario =>
        /\ Len(points) = 1
        /\ points[1].tags =
              [rat |-> Txt_LTE, role |-> Txt_anchor, pci |-> NatToStr(123),
               band |-> B20, arfcn |-> NatToStr(1300)]
        /\ points[1].fields = ScenarioFields

\* C7 amended: the tag set also holds cell_id:"unknown", since the scenario
\* reports no cell identity.
C7_ScenarioWithCellId ==
    InScenario =>
        /\ Len(points) = 1
        /\ points[1].tags =
              [rat |-> Txt_LTE, role |-> Txt_anchor, pci |-> NatToStr(123),
               cell_id |-> Txt_unknown,
               band |-> B20, arfcn |-> NatToStr(1300)]
        /\ points[1].fields = ScenarioFields

C7_Witness == InScenario /\ pc = "write" /\ Len(points) = 1

\* C8: on a snapshot whose fields are absent or hold numbers or text, numeric
\* or not, _extract_radio_points returns a list and raises nothing.
C8_NeverRaises ==
    (status.ok /\ Schematic(status)) => (pc # "raised" /\ exc = "none")

\* non-numeric text as PCI and as RSRP: an empty list comes back
C8_Witness ==
    /\ Extracted
    /\ Snapshot["INTF_PhyCell_ID"] = PyStr(Txt_abc)
    /\ Snapshot["INTF_RSRP"] = PyStr(Txt_abc)
    /\ points = <<>>

\* C9: at most two observations, at most one anchor and one secondary, the
\* anchor first; all stamped with the timestamp of the cycle; collect()
\* writes them in that order.
C9_OrderAndStamp ==
    Extracted =>
        /\ Len(points) <= 2
        /\ Anchors \cup Secondaries = 1..Len(points)
        /\ Cardinality(Anchors) <= 1
        /\ Cardinality(Secondaries) <= 1
        /\ \A i \in Anchors, j \in Secondaries : i < j
        /\ \A i \in 1..Len(points) : points[i].time = now
        /\ pc = "write" =>
              /\ Len(writes) <= Len(points)
              /\ writes = SubSeq(points, 1, Len(writes))
        /\ pc = "done" =>
              /\ Len(writes) >= Len(points)
              /\ SubSeq(writes, 1, Len(points)) = points

\* both observations and the ping point written
C9_Witness ==
    /\ pc = "done"
    /\ Len(points) = 2
    /\ Len(writes) = 3

\* C10: every call of get_status ends, whatever the modem answers.  (The
\* claim has it end by returning; a call left by the NR5103Exception of a
\* refused payload counts as ended here.)
C10_GetStatusEnds == (gs_pc = "test") ~> (gs_pc \in {"returned", "raised"})

====
